---- MODULE Spec2Model ----
(***************************************************************************)
(* FloatChat: the response router (ChatBot.respond, src/src/utils/        *)
(* chatbot.py), the LLM cooldown (module globals of chatbot.py) and the    *)
(* FastAPI endpoints with their in-memory session store                    *)
(* (src/backend/fastapi_server.py).                                        *)
(*                                                                         *)
(* The endpoints are `async def` handlers that never await, so each        *)
(* handler runs to completion on the event loop: one action per handler.   *)
(* Texts are strings; a Python dict is a function whose domain is the set  *)
(* of keys present; Python's None is the string NoneText where a text is   *)
(* expected.  External collaborators (file system, SQLite stores, the LLM  *)
(* agent, matplotlib) are an environment record `env` drawn per request.   *)
(***************************************************************************)
EXTENDS Integers, Sequences, FiniteSets, TLC

VARIABLES
    now,            \* datetime.utcnow(), in minutes since process start
    cooldownUntil,  \* _LLM_COOLDOWN_UNTIL (None or an instant)
    langchain_llm,  \* APPCFG.langchain_llm is set (TRUE) or None (FALSE)
    chat_sessions,  \* chat_sessions: session id -> list of [message, response]
    chatCount,      \* ghost: session chat requests handled since the id was last cleared
    cleared,        \* ghost: the ids deleted from the store and not chatted with since
    embedding_model,      \* APPCFG.embedding_model: "google", "local" or None
    embedding_dimension,  \* APPCFG.embedding_dimension
    demotion,       \* ghost: runs of the quota handler of the RAG case, and the
                    \* delete-and-rebuild sequences of the collection they started
    collection,     \* the persisted Chroma collection APPCFG.collection_name
    workers,        \* where each concurrent caller of the RAG case stands
    ragQuotaAt,     \* ghost: when a RAG request last met an embedding provider
                    \* answering 429 (None: never)
    last            \* ghost: the handler that ran last, its request, its calls, its result

vars == <<now, cooldownUntil, langchain_llm, chat_sessions, chatCount, cleared,
          embedding_model, embedding_dimension, demotion, collection, workers,
          ragQuotaAt, last>>

\* What the session endpoints and the cooldown functions leave alone
ragVars == <<embedding_model, embedding_dimension, demotion, collection, workers, ragQuotaAt>>

----------------------------------------------------------------------------
(* Bounds of the model *)

MaxNow == 30            \* the clock stops advancing here
TickMinutes == 30       \* one step of the clock
MaxChats == 2           \* session chat requests per session id between two clears

(* Program constants *)

None == -1                      \* _LLM_COOLDOWN_UNTIL = None
SqlCooldownMinutes == 30        \* _activate_llm_cooldown(30)
RagCooldownMinutes == 60        \* _activate_llm_cooldown(60)
SampleRows == 5                 \* LIMIT 5 / results[:5]
DefaultCooldownMinutes == 10    \* def _activate_llm_cooldown(minutes: int = 10)
LocalDimension == 384           \* all-MiniLM-L6-v2
GoogleDimension == 768          \* the Google embedding model

NoneText == "<None>"            \* Python None where a str is expected

----------------------------------------------------------------------------
(* Python str operations *)

UpperAlphabet == "ABCDEFGHIJKLMNOPQRSTUVWXYZ"
LowerAlphabet == "abcdefghijklmnopqrstuvwxyz"

CharAt(s, i) == SubSeq(s, i, i)

LowerChar(c) ==
    IF \E i \in 1..26 : CharAt(UpperAlphabet, i) = c
    THEN CharAt(LowerAlphabet, CHOOSE i \in 1..26 : CharAt(UpperAlphabet, i) = c)
    ELSE c

UpperChar(c) ==
    IF \E i \in 1..26 : CharAt(LowerAlphabet, i) = c
    THEN CharAt(UpperAlphabet, CHOOSE i \in 1..26 : CharAt(LowerAlphabet, i) = c)
    ELSE c

\* str.lower() and str.upper(), character by character
RECURSIVE str_lower(_)
str_lower(s) == IF s = "" THEN "" ELSE LowerChar(CharAt(s, 1)) \o str_lower(SubSeq(s, 2, Len(s)))

RECURSIVE str_upper(_)
str_upper(s) == IF s = "" THEN "" ELSE UpperChar(CharAt(s, 1)) \o str_upper(SubSeq(s, 2, Len(s)))

\* k in s
str_contains(s, k) == \E i \in 0..(Len(s) - Len(k)) : SubSeq(s, i + 1, i + Len(k)) = k

\* Python truthiness of a str-or-None value: `not response`
Falsy(text) == text = NoneText \/ text = ""

RECURSIVE Join(_, _)
Join(sep, texts) ==
    IF texts = <<>> THEN ""
    ELSE IF Len(texts) = 1 THEN texts[1]
    ELSE texts[1] \o sep \o Join(sep, Tail(texts))

Take(seq, n) == SubSeq(seq, 1, IF Len(seq) < n THEN Len(seq) ELSE n)

----------------------------------------------------------------------------
(* Requests *)

StoredSql == "Q&A with stored SQL-DB"
UploadedTabularSql == "Q&A with Uploaded CSV/XLSX SQL-DB"
StoredTabularSql == "Q&A with stored CSV/XLSX SQL-DB"
Rag == "RAG with stored CSV/XLSX ChromaDB"

SupportedChatTypes == {StoredSql, UploadedTabularSql, StoredTabularSql, Rag}
ChatTypes == SupportedChatTypes \cup {"Unknown"}

AppFunctionalities == {"Chat", "Process files"}

SessionIds == {"A", "B"}

\* A turn of a history: [message, response]
Turn(message, response) == <<message, response>>

----------------------------------------------------------------------------
(* The environment one request observes *)

\* APPCFG.sqldb_directory, APPCFG.uploaded_files_sqldb_directory,
\* APPCFG.stored_csv_xlsx_sqldb_directory
Paths == {"sqldb", "uploaded", "stored_csv"}

Null == -1000       \* SQL NULL / Python None in a row

\* A SQLite file: whether it exists, the error every statement on it raises
\* ("" when it is sound), its tables in catalog order
MissingDb == [exists |-> FALSE, error |-> "", tables |-> <<>>]
CorruptDb == [exists |-> TRUE, error |-> "file is not a database", tables |-> <<>>]
EmptyDb == [exists |-> TRUE, error |-> "", tables |-> <<>>]
OceanDb ==
    [exists |-> TRUE, error |-> "",
     tables |-> << [name |-> "ocean_1", cols |-> <<"depth_m", "water_temp">>,
                    rows |-> << <<1, 20>>, <<2, 21>>, <<3, 22>>, <<4, 23>>, <<5, 24>>,
                                <<6, 35>> >>] >>]
ArgoDb ==
    [exists |-> TRUE, error |-> "",
     tables |-> << [name |-> "argo", cols |-> <<"id", "sst">>,
                    rows |-> << <<1, 15>> >>] >>]

\* A store whose catalog lists another table before ocean_1
ArgoOceanDb ==
    [exists |-> TRUE, error |-> "",
     tables |-> ArgoDb.tables \o OceanDb.tables]

DBs == {MissingDb, CorruptDb, EmptyDb, OceanDb}

\* What an LLM call can raise
QuotaErrors == {"429 Too Many Requests", "Quota exceeded"}
OtherErrors == {"Request timed out"}
Errors == QuotaErrors \cup OtherErrors

AgentOutput == "The temperature ranges from 20 to 35."
PngData == "iVBORw0KGgo="

\* str() of the UnboundLocalError for `response`: CPython 3.11 and later, and before
UnboundLocalTexts ==
    << "cannot access local variable 'response' where it is not associated with a value",
       "local variable 'response' referenced before assignment" >>

MkEnv(sqldb, tabdb, build, invoke, graph) ==
    [dbs |-> [p \in Paths |-> IF p = "sqldb" THEN sqldb ELSE tabdb],
     build |-> build,        \* create_sql_agent: "ok" or the error it raises
     invoke |-> invoke,      \* agent_executor.invoke: "ok" or the error it raises
     output |-> AgentOutput, \* result["output"]
     graph |-> graph,        \* whether matplotlib renders the figure: "ok" / "fail"
     embed |-> "ok",         \* the Google embedding service: "ok" or the error it answers
     unbound |-> UnboundLocalTexts[1]]  \* str(UnboundLocalError) of the interpreter

\* Whether the agent of a tabular request is built at all: the store file
\* exists and SQLDatabase can reflect it
Buildable(db) == db.exists /\ db.error = ""

\* The environments a request of a chat type can tell apart: the stores and
\* collaborators the branch of that chat type reads.  `stores` are the SQL
\* stores, `tabular` the (SQL store, CSV/XLSX store) pairs and `errors` the
\* failures of the agent.
Envs(chat_type, stores, tabular, errors) ==
    IF chat_type \in {UploadedTabularSql, StoredTabularSql}
    THEN { MkEnv(p[1], p[2], "ok", "ok", "ok") : p \in tabular }
         \cup { MkEnv(p[1], p[2], "ok", i, "ok") :
                    p \in {q \in tabular : Buildable(q[2])}, i \in errors }
         \cup { MkEnv(p[1], p[2], b, "ok", "ok") :
                    p \in {q \in tabular : Buildable(q[2])}, b \in errors }
    ELSE IF chat_type = Rag
    THEN { MkEnv(s, MissingDb, "ok", "ok", "ok") : s \in stores }
         \cup { MkEnv(OceanDb, MissingDb, "ok", "ok", "fail") }
    ELSE IF chat_type = StoredSql
    THEN { MkEnv(s, MissingDb, "ok", "ok", "ok") : s \in stores }
    ELSE { [MkEnv(OceanDb, OceanDb, "ok", "ok", "ok") EXCEPT !.unbound = u] :
               u \in {UnboundLocalTexts[i] : i \in DOMAIN UnboundLocalTexts} }

\* The requests of a universe: every message with every chat type in every
\* environment of that chat type
Requests(messages, stores, tabular, errors) ==
    UNION { { [message |-> m, chat_type |-> ct, env |-> e] :
                  e \in Envs(ct, stores, tabular, errors) }
            : m \in messages, ct \in ChatTypes }

\* The router's requests (RouterSpec)
RouterMessages == {"temperature range", "plot temp", "hello"}
RouterTabular == { <<ArgoDb, d>> : d \in DBs }
RouterRequests == Requests(RouterMessages, DBs, RouterTabular, Errors)

\* The requests on stores of one and of two tables (HeuristicSpec)
HeuristicMessages == {"temperature range", "hello", "SELECT * FROM ocean_1 -- chart"}
HeuristicTabular == { <<OceanDb, ArgoOceanDb>>, <<ArgoOceanDb, OceanDb>> }
HeuristicRequests ==
    Requests(HeuristicMessages, {OceanDb, ArgoOceanDb}, HeuristicTabular,
             {"429 Too Many Requests"})

\* How a direct caller calls respond: the history and app_functionality passed
RouterCallers ==
    { [chatbot |-> <<Turn("hi", "Hello!")>>, app_functionality |-> "Chat"],
      [chatbot |-> <<>>, app_functionality |-> "Process files"] }

\* The requests of the whole server (Spec)
ServerMessages == {"temperature range", "plot temp"}
ServerTabular == { <<ArgoDb, OceanDb>> }
ServerRequests ==
    Requests({"plot temp"}, {OceanDb}, ServerTabular, {"429 Too Many Requests"})
ServerCallers == { [chatbot |-> <<Turn("hi", "Hello!")>>, app_functionality |-> "Process files"] }

\* One external call of a request, as logged in the order made
Call(svc, op, target, outcome) == [svc |-> svc, op |-> op, target |-> target, outcome |-> outcome]

----------------------------------------------------------------------------
(* The str operations on the texts and keywords of the model, tabulated once *)

KnownTexts ==
    RouterMessages \cup ServerMessages \cup Errors
    \cup {"SELECT * FROM ocean_1 -- chart", "show histogram"}
    \cup {"file is not a database", "depth_m", "water_temp", "id", "sst"}

KnownKeywords ==
    {"plot", "graph", "chart", "visualize", "show chart", "bar chart", "line graph", "histogram",
     "range", "min", "max", "temperature", "temp", "sst", "429", "quota", "SELECT", "FROM"}

LowerTable == [s \in KnownTexts |-> str_lower(s)]
UpperTable == [s \in KnownTexts |-> str_upper(s)]

Lower(s) == IF s \in KnownTexts THEN LowerTable[s] ELSE str_lower(s)
Upper(s) == IF s \in KnownTexts THEN UpperTable[s] ELSE str_upper(s)

SearchedTexts == KnownTexts \cup {LowerTable[s] : s \in KnownTexts} \cup {UpperTable[s] : s \in KnownTexts}
ContainsTable == [s \in SearchedTexts, k \in KnownKeywords |-> str_contains(s, k)]

Contains(s, k) ==
    IF s \in SearchedTexts /\ k \in KnownKeywords THEN ContainsTable[s, k] ELSE str_contains(s, k)

\* any(k in s for k in keywords)
ContainsAny(s, keywords) == \E k \in keywords : Contains(s, k)

----------------------------------------------------------------------------
(* Rendering of rows: str() of Python values *)

ValueText(v) == IF v = Null THEN "None" ELSE ToString(v)

\* str(tuple)
RowText(row) == "(" \o Join(", ", [i \in 1..Len(row) |-> ValueText(row[i])]) \o ")"

\* str(list of tuples)
RowsText(rows) == "[" \o Join(", ", [i \in 1..Len(rows) |-> RowText(rows[i])]) \o "]"

\* str(dict(zip(columns, row)))
RowDictText(cols, row) ==
    "{" \o Join(", ", [i \in 1..Len(row) |-> "'" \o cols[i] \o "': " \o ValueText(row[i])]) \o "}"

\* dict update: d[k] = v
SetKey(d, k, v) == [x \in DOMAIN d \cup {k} |-> IF x = k THEN v ELSE d[x]]

\* d.get(k) is falsy
GetFalsy(d, k) == IF k \in DOMAIN d THEN Falsy(d[k]) ELSE TRUE

----------------------------------------------------------------------------
(* ProviderCooldown: chatbot.py, module level *)

\* _llm_available(), with the global and the clock as arguments
\* A gate that never closes: the cooldown is recorded but not consulted
llm_available_ungated(until, t) == TRUE

\* A gate that is still closed at the expiry instant
llm_available_after_expiry(until, t) == IF until = None THEN TRUE ELSE t > until

\* An activation that keeps the later of the stored expiry and the new one
activate_llm_cooldown_extending(until, t, minutes) ==
    IF until # None /\ until > t + minutes THEN until ELSE t + minutes

_llm_available(until, t) == IF until = None THEN TRUE ELSE t >= until

\* _activate_llm_cooldown(minutes): the new value of the global
_activate_llm_cooldown(until, t, minutes) == t + minutes

\* A test that takes every error for a quota error
is_quota_error_any(err) == TRUE

\* "429" in str(e) or "quota" in str(e).lower()
IsQuotaError(err) == Contains(err, "429") \/ Contains(Lower(err), "quota")

----------------------------------------------------------------------------
(* SQLite, as the router uses it *)

\* sqlite3.connect(path) creates the file when it is missing: no tables
TablesOf(db) == IF db.exists THEN db.tables ELSE <<>>

\* The table a "SELECT * FROM <name>..." statement reads, or <<>> when the
\* statement is not of that form or names no table of the store
StartsWith(s, prefix) == Len(prefix) <= Len(s) /\ SubSeq(s, 1, Len(prefix)) = prefix

QueryTables(db, query) ==
    SelectSeq(TablesOf(db),
              LAMBDA t : \/ query = "SELECT * FROM " \o t.name
                         \/ StartsWith(query, "SELECT * FROM " \o t.name \o " "))

\* message.split(';')[0]
FirstStatement(message) ==
    IF \E i \in 1..Len(message) : CharAt(message, i) = ";"
    THEN SubSeq(message, 1, (CHOOSE i \in 1..Len(message) :
                                /\ CharAt(message, i) = ";"
                                /\ \A j \in 1..(i - 1) : CharAt(message, j) # ";") - 1)
    ELSE message

EmptyFrame == [cols |-> <<>>, rows |-> <<>>]

\* ChatBot.execute_query: a statement that fails gives an empty DataFrame
execute_query(query, db) ==
    IF db.error # "" \/ QueryTables(db, query) = <<>>
    THEN EmptyFrame
    ELSE LET t == QueryTables(db, query)[1] IN [cols |-> t.cols, rows |-> t.rows]

SetMin(S) == CHOOSE x \in S : \A y \in S : x <= y
SetMax(S) == CHOOSE x \in S : \A y \in S : x >= y

\* index of a column in a table, and the non-NULL values of the column
ColIndex(t, col) == CHOOSE i \in 1..Len(t.cols) : t.cols[i] = col
ColValues(t, col) == { t.rows[r][ColIndex(t, col)] : r \in 1..Len(t.rows) } \ {Null}

----------------------------------------------------------------------------
(* SQLGraphAgent: graph_generator.py *)

graph_keywords ==
    {"plot", "graph", "chart", "visualize", "show chart", "bar chart", "line graph", "histogram"}

detect_graph_request(query) == ContainsAny(Lower(query), graph_keywords)

\* generate_graph catches everything it raises and returns a dict:
\* {'data', 'mime_type', 'success': True} or {'error', 'success': False}
generate_graph(data, env) ==
    IF data.rows = <<>> \/ Len(data.cols) < 2 \/ env.graph # "ok"
    THEN [success |-> FALSE, error |-> "Could not generate graph"]
    ELSE [success |-> TRUE, data |-> PngData, mime_type |-> "image/png"]

----------------------------------------------------------------------------
(* ChatBot: chatbot.py *)

\* What a call of respond (or of a part of it) ends in: a return of
\* ("", history, envelope) or an exception, with the external calls made and
\* the value the cooldown global is left with.
Ret(history, envelope, calls, until) ==
    [kind |-> "return", error |-> NoneText, history |-> history,
     envelope |-> envelope, calls |-> calls, cooldown |-> until]

Raise(error, history, calls, until) ==
    [kind |-> "raise", error |-> error, history |-> history,
     envelope |-> <<>>, calls |-> calls, cooldown |-> until]

\* ChatBot._get_sql_response: never raises, returns [text, calls]
_get_sql_response(message, chat_type, env) ==
    LET db == env.dbs["sqldb"]
        exists == Call("fs", "exists", "sqldb", IF db.exists THEN "True" ELSE "False")
        connect == Call("sql", "connect", "sqldb", IF db.error = "" THEN "ok" ELSE db.error)
    IN  IF chat_type = StoredSql
        THEN IF db.exists
             THEN IF db.error # ""
                  THEN [text |-> "Error retrieving data: " \o db.error,
                        calls |-> <<exists, connect>>]
                  ELSE IF db.tables = <<>>
                  THEN \* cursor.fetchone()[0] on no row
                       [text |-> "Error retrieving data: 'NoneType' object is not subscriptable",
                        calls |-> <<exists, connect>>]
                  ELSE LET t == db.tables[1]
                           results == Take(t.rows, SampleRows)
                       IN  IF results # <<>>
                           THEN [text |-> "Query results:\n" \o
                                     Join("\n", [i \in 1..Len(results) |-> RowDictText(t.cols, results[i])]),
                                 calls |-> <<exists, connect>>]
                           ELSE [text |-> "No data found.", calls |-> <<exists, connect>>]
             ELSE [text |-> "No data found.", calls |-> <<exists>>]
        ELSE [text |-> "No data found.", calls |-> <<>>]

\* ChatBot._prepare_response_with_visualization: returns [data, calls].
\* generate_graph returns a dict, so plt.savefig raises AttributeError, which
\* the except clause swallows: 'graph' is never set.
_prepare_response_with_visualization(message, response, env) ==
    LET db == env.dbs["sqldb"]
        response_data == [text |-> response]
        exists == Call("fs", "exists", "sqldb", IF db.exists THEN "True" ELSE "False")
        connect == Call("sql", "connect", "sqldb", IF db.error = "" THEN "ok" ELSE db.error)
    IN  IF detect_graph_request(message)
        THEN IF ~db.exists
             THEN [data |-> response_data, calls |-> <<exists>>]
             ELSE IF db.error # "" \/ db.tables = <<>>
             THEN [data |-> response_data, calls |-> <<exists, connect>>]
             ELSE LET result_df == execute_query("SELECT * FROM " \o db.tables[1].name, db)
                  IN  IF result_df.rows # <<>>
                      THEN [data |-> response_data,
                            calls |-> <<exists, connect,
                                        Call("viz", "generate_graph", "sqldb",
                                             IF generate_graph(result_df, env).success
                                             THEN "ok" ELSE "fail")>>]
                      ELSE [data |-> response_data, calls |-> <<exists, connect>>]
        ELSE [data |-> response_data, calls |-> <<>>]

\* respond, chat_type == "Q&A with stored SQL-DB" (first branch of the function):
\* answered by _get_sql_response; the dict _prepare_response_with_visualization
\* returns replaces response_data, "response" is then put back into it
respond_StoredSql(chatbot, message, chat_type, env, until) ==
    LET sql == _get_sql_response(message, chat_type, env)
        response == sql.text
        prepared == _prepare_response_with_visualization(message, response, env)
        replaced == prepared.data
        response_data == IF GetFalsy(replaced, "response")
                         THEN SetKey(replaced, "response", response)
                         ELSE replaced
    IN  Ret(Append(chatbot, Turn(message, response_data.response)), response_data,
            sql.calls \o prepared.calls, until)

\* respond, chat_type == "RAG with stored CSV/XLSX ChromaDB" (second branch):
\* a fixed text, plus a chart of the first table of the SQL store when one renders
respond_Rag(chatbot, message, env, until) ==
    LET response == "Response from RAG model"
        plain == [response |-> response, success |-> TRUE, text |-> response]
        db == env.dbs["sqldb"]
        exists == Call("fs", "exists", "sqldb", IF db.exists THEN "True" ELSE "False")
        connect == Call("sql", "connect", "sqldb", IF db.error = "" THEN "ok" ELSE db.error)
        done(response_data, calls) ==
            Ret(Append(chatbot, Turn(message, response_data.response)), response_data, calls, until)
    IN  IF ~db.exists
        THEN done(plain, <<exists>>)
        ELSE IF db.error # "" \/ db.tables = <<>>
        THEN done(plain, <<exists, connect>>)
        ELSE LET result_df == execute_query("SELECT * FROM " \o db.tables[1].name, db)
                 graph_data == generate_graph(result_df, env)
                 viz == Call("viz", "generate_graph", "sqldb",
                             IF graph_data.success THEN "ok" ELSE "fail")
             IN  IF result_df.rows = <<>>
                 THEN done(plain, <<exists, connect>>)
                 ELSE IF "data" \in DOMAIN graph_data
                 THEN done([response |-> response \o "\n\nHere's a visualization of the data:",
                            success |-> TRUE,
                            text |-> response,
                            graph |-> "data:image/png;base64," \o graph_data.data,
                            graph_data |-> [type |-> "image", format |-> "image/png"]],
                           <<exists, connect, viz>>)
                 ELSE \* graph_data['data'] raises KeyError, swallowed
                      done(plain, <<exists, connect, viz>>)

\* A fallback block that answers without the store and pushes a set expiry on
respond_TabularFallback_extending(chatbot, message, path, env, calls, until) ==
    Ret(Append(chatbot, Turn(message, "No data found.")),
        [response |-> "No data found.", success |-> TRUE], calls,
        IF until = None THEN None ELSE until + 1)

\* respond, the "Fallback: Direct SQL + Visualization" block of the CSV/XLSX
\* branch.  For a graph request db_path is first rebound to APPCFG.sqldb_directory,
\* then tables[0] raises UnboundLocalError, which is swallowed.
respond_TabularFallback(chatbot, message, path, env, calls, until) ==
    LET db_path == IF detect_graph_request(message) THEN "sqldb" ELSE path
        db == env.dbs[db_path]
        connect == Call("sql", "connect", db_path, IF db.error = "" THEN "ok" ELSE db.error)
        tables == TablesOf(db)
        msg == Lower(message)
        done(response) ==
            Ret(Append(chatbot, Turn(message, response)),
                [response |-> response, success |-> TRUE], Append(calls, connect), until)
    IN  IF db.error # ""
        THEN LET response == "Error querying database without LLM: " \o db.error
             IN  Ret(Append(chatbot, Turn(message, response)),
                     [response |-> response, success |-> FALSE, error |-> db.error],
                     Append(calls, connect), until)
        ELSE IF tables # <<>>
        THEN LET t == tables[1]
                 temp_cands == SelectSeq(t.cols,
                                   LAMBDA c : ContainsAny(Lower(c), {"temperature", "temp", "sst"}))
                 sample == "Here is a sample of the data from '" \o t.name \o "':\n"
                               \o RowsText(Take(t.rows, SampleRows))
             IN  IF temp_cands # <<>>
                    /\ ContainsAny(msg, {"range", "min", "max", "temperature", "temp"})
                    /\ ColValues(t, temp_cands[1]) # {}
                 THEN done("The minimum temperature recorded is "
                           \o ToString(SetMin(ColValues(t, temp_cands[1])))
                           \o " degrees and the maximum temperature recorded is "
                           \o ToString(SetMax(ColValues(t, temp_cands[1])))
                           \o " degrees.")
                 ELSE done(sample)
        ELSE done("No tables found in the database.")

\* An except clause that reports the failed invocation as an answer given
respond_TabularInvokeError_unflagged(chatbot, message, e, calls, until) ==
    Ret(Append(chatbot, Turn(message, e)), [response |-> e, success |-> TRUE], calls, until)

\* respond, the except clause around agent_executor.invoke of the CSV/XLSX
\* branch: the failure `e` is returned as the answer
respond_TabularInvokeError(chatbot, message, e, calls, until) ==
    LET user_msg ==
            IF IsQuotaError(e)
            THEN "We've hit the API rate limit. Please try again later or check your API quota."
            ELSE "Sorry, I encountered an error processing your request: " \o e
    IN  Ret(Append(chatbot, Turn(message, user_msg)),
            [response |-> user_msg, success |-> FALSE, error |-> e],
            calls, until)

\* respond, chat_type in the two CSV/XLSX SQL-DB types, app_functionality == "Chat"
respond_Tabular(chatbot, message, chat_type, env, until, t, llm) ==
    LET path == IF chat_type = UploadedTabularSql THEN "uploaded" ELSE "stored_csv"
        db == env.dbs[path]
        exists == Call("fs", "exists", path, IF db.exists THEN "True" ELSE "False")
        \* SQLDatabase(engine=engine) reads the schema, then create_sql_agent
        \* builds the agent: the first of the two that fails ends the construction
        built == IF db.error # "" THEN db.error ELSE env.build
        build == IF db.error # ""
                 THEN Call("sql", "SQLDatabase", path, db.error)
                 ELSE Call("llm", "create_sql_agent", path, env.build)
        invoke == Call("llm", "agent.invoke", path, env.invoke)
    IN  IF ~db.exists
        THEN LET response == "SQL DB not found at " \o path
             IN  Ret(Append(chatbot, Turn(message, response)),
                     [response |-> response, success |-> FALSE, error |-> "SQL database not found"],
                     <<exists>>, until)
        ELSE IF llm /\ _llm_available(until, t)
        THEN IF built # "ok"
             THEN \* except around the agent's construction: cooldown on a quota
                  \* error, then the fallback block
                  respond_TabularFallback(chatbot, message, path, env, <<exists, build>>,
                      IF IsQuotaError(built)
                      THEN _activate_llm_cooldown(until, t, SqlCooldownMinutes) ELSE until)
             ELSE IF env.invoke # "ok"
             THEN \* except around agent_executor.invoke: the failure is the answer
                  respond_TabularInvokeError(chatbot, message, env.invoke,
                                             <<exists, build, invoke>>, until)
             ELSE LET response == env.output
                      is_visualization ==
                          ContainsAny(Lower(message), {"plot", "graph", "chart", "visualize"})
                      response_data ==
                          [response |-> response, success |-> TRUE,
                           raw_data |-> "{'input': '" \o message \o "', 'output': '" \o response \o "'}",
                           needs_visualization |-> is_visualization]
                      sqldb == env.dbs["sqldb"]
                      df == execute_query(FirstStatement(message), sqldb)
                      query == Call("sql", "execute_query", "sqldb", "ok")
                      history == Append(chatbot, Turn(message, response))
                  IN  IF is_visualization
                         /\ Contains(Upper(message), "SELECT") /\ Contains(Upper(message), "FROM")
                      THEN IF df.rows # <<>>
                           THEN \* generate_graph(df, chart_type=..., title=message)
                                \* raises TypeError: the note is appended
                                Ret(history,
                                    SetKey(response_data, "response",
                                           response \o "\n\nNote: Could not generate the graph."),
                                    <<exists, build, invoke, query>>, until)
                           ELSE Ret(history, response_data, <<exists, build, invoke, query>>, until)
                      ELSE Ret(history, response_data, <<exists, build, invoke>>, until)
        ELSE respond_TabularFallback(chatbot, message, path, env, <<exists>>, until)

\* An unsupported chat type answered without a turn added to the history
respond_Unsupported_unrecorded(chatbot, message, until) ==
    Ret(chatbot,
        [text |-> "This chat type is not supported.",
         response |-> "This chat type is not supported.", success |-> FALSE,
         error |-> "Unsupported chat type"],
        <<>>, until)

\* respond, "Handle unsupported chat types"
respond_Unsupported(chatbot, message, until) ==
    LET response == "This chat type is not supported."
    IN  Ret(Append(chatbot, Turn(message, response)),
            [text |-> response, response |-> response, success |-> FALSE,
             error |-> "Unsupported chat type"],
            <<>>, until)

\* The body of respond's try block
respond_try(chatbot, message, chat_type, app_functionality, env, until, t, llm) ==
    IF chat_type = StoredSql
    THEN respond_StoredSql(chatbot, message, chat_type, env, until)
    ELSE IF chat_type = Rag
    THEN respond_Rag(chatbot, message, env, until)
    ELSE IF app_functionality = "Chat"
    THEN IF chat_type \in {UploadedTabularSql, StoredTabularSql}
         THEN respond_Tabular(chatbot, message, chat_type, env, until, t, llm)
         ELSE respond_Unsupported(chatbot, message, until)
    ELSE \* "Prepare final response data": response was never assigned
         Raise(env.unbound, chatbot, <<>>, until)

\* respond without its catch-all except clause
respond_uncaught(chatbot, message, chat_type, app_functionality, env, until, t, llm) ==
    respond_try(chatbot, message, chat_type, app_functionality, env, until, t, llm)

\* ChatBot.respond: the try block and its catch-all except clause
respond(chatbot, message, chat_type, app_functionality, env, until, t, llm) ==
    LET r == respond_try(chatbot, message, chat_type, app_functionality, env, until, t, llm)
        response == "I'm sorry, I encountered an error while processing your request. Please try again."
    IN  IF r.kind = "raise"
        THEN Ret(Append(r.history, Turn(message, response)),
                 [response |-> response, success |-> FALSE, error |-> r.error],
                 r.calls, r.cooldown)
        ELSE r

\* A respond whose RAG type puts the Google embedding model back
respond_embedding_model_reverting(chat_type, model) ==
    IF chat_type = Rag THEN "google" ELSE model

\* APPCFG.embedding_model when respond returns: its only assignment sits in
\* the RAG case of the `if app_functionality == "Chat"` block, behind the
\* return of the RAG branch above it, so respond leaves `model` as it found it
respond_embedding_model(chat_type, model) == model

----------------------------------------------------------------------------
(* The endpoints: fastapi_server.py *)

\* d.get(k, default)
Get(d, k, default) == IF k \in DOMAIN d THEN d[k] ELSE default

NoGraphData == [type |-> NoneText, format |-> NoneText]

\* The pydantic model ChatResponse.  The warning sign (U+26A0) that opens the
\* error texts of the endpoints is written "[!]".
ChatResponse(response, graph, graph_data, success, error) ==
    [kind |-> "ChatResponse", response |-> response, graph |-> graph,
     graph_data |-> graph_data, success |-> success, error |-> error,
     history |-> <<>>]

\* What get_chat_history and clear_chat_session return
ChatHistory(history) ==
    [kind |-> "ChatHistory", response |-> NoneText, graph |-> NoneText,
     graph_data |-> NoGraphData, success |-> TRUE, error |-> NoneText,
     history |-> history]

MessageReply(message) ==
    [kind |-> "message", response |-> message, graph |-> NoneText,
     graph_data |-> NoGraphData, success |-> TRUE, error |-> NoneText,
     history |-> <<>>]

\* POST /api/chat, given what chatbot_instance.respond ended in
chat_endpoint(r) ==
    IF r.kind = "raise"
    THEN ChatResponse("[!] Error: " \o r.error, NoneText, NoGraphData, FALSE, r.error)
    ELSE LET response_data ==
                 IF r.envelope = <<>>
                 THEN [response |-> "[!] No response generated from chatbot.", success |-> FALSE]
                 ELSE r.envelope
             response_text == Get(response_data, "response", Get(response_data, "text", ""))
             graph == Get(response_data, "graph", NoneText)
             graph_data == IF Falsy(graph) THEN NoneText
                           ELSE IF StartsWith(graph, "data:image/") THEN graph
                           ELSE "data:image/png;base64," \o graph
         IN  ChatResponse(response_text, graph_data,
                          Get(response_data, "graph_data", NoGraphData),
                          Get(response_data, "success", FALSE),
                          Get(response_data, "error", NoneText))

\* ChatBot.respond(chatbot=..., message=..., chat_type=..., app_functionality=...):
\* the function is called on the class, so `self` is not bound and the call
\* raises TypeError before the body runs
respond_unbound(chatbot, message, chat_type, app_functionality, until) ==
    Raise("ChatBot.respond() missing 1 required positional argument: 'self'",
          chatbot, <<>>, until)

\* POST /api/chat/session/{session_id}: the session store and the response
\* the handler ends with
chat_with_session(sessions, session_id, message, chat_type, app_functionality, until) ==
    LET created == IF session_id \in DOMAIN sessions
                   THEN sessions
                   ELSE [s \in DOMAIN sessions \cup {session_id} |->
                            IF s = session_id THEN <<>> ELSE sessions[s]]
        chatbot_history == created[session_id]
        result == respond_unbound(chatbot_history, message, chat_type, app_functionality, until)
    IN  IF result.kind = "raise"
        THEN [sessions |-> created, result |-> result,
              http |-> ChatResponse("[!] Error: " \o result.error, NoneText, NoGraphData,
                                    FALSE, result.error)]
        ELSE LET text == Get(result.envelope, "text", NoneText)
             IN  [sessions |-> [created EXCEPT ![session_id] = result.history],
                  result |-> result,
                  http |-> ChatResponse(IF Falsy(text)
                                        THEN "[!] No response generated from chatbot."
                                        ELSE text,
                                        NoneText, NoGraphData, TRUE, NoneText)]

\* A history read that answers an id the store does not hold with a stale turn
get_chat_history_stale(sessions, session_id) ==
    IF session_id \in DOMAIN sessions
    THEN ChatHistory(sessions[session_id])
    ELSE ChatHistory(<<Turn("stale", "stale")>>)

\* GET /api/chat/session/{session_id}/history
get_chat_history(sessions, session_id) ==
    IF session_id \in DOMAIN sessions
    THEN ChatHistory(sessions[session_id])
    ELSE ChatHistory(<<>>)

\* A history read that creates the session it was asked for
get_chat_history_sessions_creating(sessions, session_id) ==
    [s \in DOMAIN sessions \cup {session_id} |->
        IF s \in DOMAIN sessions THEN sessions[s] ELSE <<>>]

\* chat_sessions when get_chat_history returns: the handler only reads it
get_chat_history_sessions(sessions, session_id) == sessions

\* A clear that empties the whole store
clear_chat_session_all(sessions, session_id) ==
    [sessions |-> <<>>,
     http |-> MessageReply("Session " \o session_id \o " cleared successfully")]

\* A clear that removes the session but always answers "not found"
clear_chat_session_silent(sessions, session_id) ==
    [sessions |-> [s \in DOMAIN sessions \ {session_id} |-> sessions[s]],
     http |-> MessageReply("Session " \o session_id \o " not found")]

\* DELETE /api/chat/session/{session_id}: the session store and the reply
clear_chat_session(sessions, session_id) ==
    IF session_id \in DOMAIN sessions
    THEN [sessions |-> [s \in DOMAIN sessions \ {session_id} |-> sessions[s]],
          http |-> MessageReply("Session " \o session_id \o " cleared successfully")]
    ELSE [sessions |-> sessions,
          http |-> MessageReply("Session " \o session_id \o " not found")]

----------------------------------------------------------------------------
(* LoadConfig: load_config.py.  APPCFG = LoadConfig() runs once, at import *)

\* What the constructor reads: configs/app_config.yml, the environment and
\* the packages installed
Config(use_local, google_enabled, google_key, google, openai_key, huggingface) ==
    [use_local_embeddings |-> use_local,            \* llm_config.use_local_embeddings
     google_generative_ai_enabled |-> google_enabled,
     GOOGLE_API_KEY |-> google_key,                 \* set or not
     google |-> google,            \* "ok", or which Google constructor raises
     OPENAI_API_KEY |-> openai_key,                 \* set or not
     huggingface |-> huggingface]  \* langchain_huggingface imports: "ok" / "ImportError"

Configs ==
    { Config(l, e, k, g, o, h) :
        l \in BOOLEAN, e \in BOOLEAN, k \in BOOLEAN,
        g \in {"ok", "client", "embeddings"}, o \in BOOLEAN, h \in {"ok", "ImportError"} }

ServerConfigs == { Config(TRUE, FALSE, FALSE, "ok", o, "ok") : o \in BOOLEAN }

\* LoadConfig.load_llm_configs: self.use_google_genai
use_google_genai(c) == c.google_generative_ai_enabled /\ ~c.use_local_embeddings

\* LoadConfig._setup_local_embeddings: the value self.embedding_model gets
_setup_local_embeddings(c) == IF c.huggingface = "ok" THEN "local" ELSE NoneText

\* LoadConfig.load_gemini_models: the LLM and the embedding model it leaves.
\* Whatever the Google step set, the function ends in _setup_local_embeddings
\* unless it returned for want of a Google key.
load_gemini_models(c) ==
    LET fallback == _setup_local_embeddings(c)
        \* 1) Google GenAI: the LLM it leaves set
        google_llm ==
            IF use_google_genai(c) /\ c.GOOGLE_API_KEY /\ c.google \in {"ok", "embeddings"}
            THEN TRUE ELSE FALSE
    IN  IF use_google_genai(c) /\ ~c.GOOGLE_API_KEY
        THEN [langchain_llm |-> FALSE, embedding_model |-> fallback]
        ELSE IF c.OPENAI_API_KEY
        THEN \* 2) ChatOpenAI, then local embeddings
             [langchain_llm |-> TRUE, embedding_model |-> _setup_local_embeddings(c)]
        ELSE \* 3) local embeddings only
             [langchain_llm |-> google_llm, embedding_model |-> _setup_local_embeddings(c)]

\* The collection APPCFG.collection_name of the persistent Chroma client:
\* whether it exists, the "embedding_dimension" of its metadata and the model
\* its vectors came from
NoCollection == [exists |-> FALSE, dimension |-> 0, backend |-> NoneText]
GoogleCollection == [exists |-> TRUE, dimension |-> GoogleDimension, backend |-> "google"]

\* The callers that can be inside the RAG case at once.  Of each: where it
\* stands in the delete-then-rebuild of the quota handler, when the quota
\* error it handles was raised, and whether it has created the collection
Workers == {"w1", "w2"}
Idle == [pc |-> "idle", at |-> None, rebuilt |-> FALSE]

\* LoadConfig.load_chroma_client: self.embedding_dimension
load_chroma_client(c) ==
    IF c.use_local_embeddings THEN LocalDimension
    ELSE IF use_google_genai(c) THEN GoogleDimension
    ELSE LocalDimension

----------------------------------------------------------------------------
(* The state machine *)

NoResult == Ret(<<>>, <<>>, <<>>, None)

\* The environment of a handler that reads none
NoEnv == MkEnv(MissingDb, MissingDb, "ok", "ok", "ok")

\* The record kept of the handler that ran last
Handled(op, session_id, message, chat_type, app_functionality, chatbot, result, http) ==
    [op |-> op, session |-> session_id, message |-> message,
     chat_type |-> chat_type, app_functionality |-> app_functionality,
     chatbot |-> chatbot,        \* the history passed to respond
     at |-> now,                 \* the clock when the handler ran
     until |-> cooldownUntil,    \* the cooldown global when the handler started
     result |-> result,          \* what respond ended in
     http |-> http,              \* what the endpoint returned
     env |-> NoEnv,              \* the environment the request observed
     minutes |-> 0,              \* the argument of _activate_llm_cooldown
     available |-> TRUE]         \* what _llm_available returned

InitOf(configs) ==
    /\ now = 0
    /\ cooldownUntil = None
    /\ \E c \in configs :
          /\ langchain_llm = load_gemini_models(c).langchain_llm
          /\ embedding_model = load_gemini_models(c).embedding_model
          /\ embedding_dimension = load_chroma_client(c)
    /\ demotion = [runs |-> 0, rebuilds |-> 0]
    /\ collection = GoogleCollection
    /\ workers = [w \in Workers |-> Idle]
    /\ ragQuotaAt = None
    /\ chat_sessions = <<>>
    /\ chatCount = [s \in SessionIds |-> 0]
    /\ cleared = {}
    /\ last = [op |-> "start", session |-> NoneText, message |-> NoneText,
               chat_type |-> NoneText, app_functionality |-> NoneText,
               chatbot |-> <<>>, at |-> 0, until |-> None,
               result |-> NoResult, http |-> MessageReply(NoneText), env |-> NoEnv,
               minutes |-> 0, available |-> TRUE]

\* The server as configured for local embeddings, with and without an LLM
Init == InitOf(ServerConfigs)

\* Time passes
Tick ==
    /\ now < MaxNow
    /\ now' = now + TickMinutes
    /\ UNCHANGED <<cooldownUntil, langchain_llm, chat_sessions, chatCount, cleared, ragVars, last>>

\* A caller invokes chatbot_instance.respond directly
DirectCall(requests, callers) ==
    \E req \in requests, c \in callers :
        LET r == respond(c.chatbot, req.message, req.chat_type, c.app_functionality,
                         req.env, cooldownUntil, now, langchain_llm)
        IN  /\ cooldownUntil' = r.cooldown
            /\ last' = [Handled("respond", NoneText, req.message, req.chat_type,
                                c.app_functionality, c.chatbot, r, MessageReply(NoneText))
                        EXCEPT !.env = req.env]
            /\ embedding_model' = respond_embedding_model(req.chat_type, embedding_model)
            /\ ragQuotaAt' = IF req.chat_type = Rag /\ req.env.embed # "ok"
                                /\ Contains(req.env.embed, "429")
                             THEN now ELSE ragQuotaAt
            /\ UNCHANGED <<now, langchain_llm, chat_sessions, chatCount, cleared,
                           embedding_dimension, demotion, collection, workers>>

\* A chat_endpoint that opens a session for the request
chat_endpoint_sessions_keeping(sessions) ==
    [s \in DOMAIN sessions \cup {"default"} |->
        IF s = "default" THEN <<>> ELSE sessions[s]]

\* chat_endpoint: the history it passes to respond (chatbot_history = []), and
\* chat_sessions when it returns
chat_endpoint_history(sessions) == <<>>
chat_endpoint_sessions(sessions) == sessions

\* POST /api/chat
PostChat(requests) ==
    \E req \in requests :
        LET chatbot_history == chat_endpoint_history(chat_sessions)
            r == respond(chatbot_history, req.message, req.chat_type, "Chat",
                         req.env, cooldownUntil, now, langchain_llm)
        IN  /\ cooldownUntil' = r.cooldown
            /\ chat_sessions' = chat_endpoint_sessions(chat_sessions)
            /\ last' = [Handled("chat_endpoint", NoneText, req.message, req.chat_type,
                                "Chat", chatbot_history, r, chat_endpoint(r))
                        EXCEPT !.env = req.env]
            /\ embedding_model' = respond_embedding_model(req.chat_type, embedding_model)
            /\ ragQuotaAt' = IF req.chat_type = Rag /\ req.env.embed # "ok"
                                /\ Contains(req.env.embed, "429")
                             THEN now ELSE ragQuotaAt
            /\ UNCHANGED <<now, langchain_llm, chatCount, cleared,
                           embedding_dimension, demotion, collection, workers>>

\* POST /api/chat/session/{session_id}
PostSessionChat(messages) ==
    \E session_id \in SessionIds, message \in messages, chat_type \in ChatTypes,
       app_functionality \in AppFunctionalities :
        LET h == chat_with_session(chat_sessions, session_id, message, chat_type,
                                   app_functionality, cooldownUntil)
        IN  /\ chatCount[session_id] < MaxChats
            /\ chat_sessions' = h.sessions
            /\ chatCount' = [chatCount EXCEPT ![session_id] = @ + 1]
            /\ cleared' = cleared \ {session_id}
            /\ cooldownUntil' = h.result.cooldown
            /\ last' = Handled("chat_with_session", session_id, message, chat_type,
                               app_functionality,
                               IF session_id \in DOMAIN chat_sessions
                               THEN chat_sessions[session_id] ELSE <<>>,
                               h.result, h.http)
            /\ UNCHANGED <<now, langchain_llm, ragVars>>

\* GET /api/chat/session/{session_id}/history
GetChatHistory ==
    \E session_id \in SessionIds :
        /\ last' = Handled("get_chat_history", session_id, NoneText, NoneText, NoneText,
                           <<>>, NoResult, get_chat_history(chat_sessions, session_id))
        /\ chat_sessions' = get_chat_history_sessions(chat_sessions, session_id)
        /\ UNCHANGED <<now, cooldownUntil, langchain_llm, chatCount, cleared, ragVars>>

\* DELETE /api/chat/session/{session_id}
ClearChatSession ==
    \E session_id \in SessionIds :
        LET h == clear_chat_session(chat_sessions, session_id)
        IN  /\ chat_sessions' = h.sessions
            /\ chatCount' = [chatCount EXCEPT ![session_id] = 0]
            /\ cleared' = IF session_id \in DOMAIN chat_sessions
                          THEN cleared \cup {session_id} ELSE cleared
            /\ last' = Handled("clear_chat_session", session_id, NoneText, NoneText,
                               NoneText, <<>>, NoResult, h.http)
            /\ UNCHANGED <<now, cooldownUntil, langchain_llm, ragVars>>

(* The whole server *)

Respond == DirectCall(ServerRequests, ServerCallers)
ChatEndpoint == PostChat(ServerRequests)
ChatWithSession == PostSessionChat(ServerMessages)

Next ==
    \/ Tick
    \/ Respond
    \/ ChatEndpoint
    \/ ChatWithSession
    \/ GetChatHistory
    \/ ClearChatSession

Spec == Init /\ [][Next]_vars

(* The router alone, over more requests.  The session endpoints neither read *)
(* nor write what respond reads (the clock, the cooldown, APPCFG).           *)

RouterRespond == DirectCall(RouterRequests, RouterCallers)
RouterChatEndpoint == PostChat(RouterRequests)

RouterNext ==
    \/ Tick
    \/ RouterRespond
    \/ RouterChatEndpoint

RouterSpec == Init /\ [][RouterNext]_vars

(* The router on stores of one and of two tables *)

HeuristicRespond == DirectCall(HeuristicRequests, RouterCallers)
HeuristicChatEndpoint == PostChat(HeuristicRequests)

HeuristicNext ==
    \/ Tick
    \/ HeuristicRespond
    \/ HeuristicChatEndpoint

HeuristicSpec == Init /\ [][HeuristicNext]_vars

----------------------------------------------------------------------------
(* The cooldown alone: the two module functions of chatbot.py called directly *)

\* The durations passed to _activate_llm_cooldown
CooldownMinutes == {1, DefaultCooldownMinutes, SqlCooldownMinutes, RagCooldownMinutes}

\* _activate_llm_cooldown(minutes)
ActivateLlmCooldown ==
    \E minutes \in CooldownMinutes :
        /\ cooldownUntil' = _activate_llm_cooldown(cooldownUntil, now, minutes)
        /\ last' = [Handled("_activate_llm_cooldown", NoneText, NoneText, NoneText, NoneText,
                            <<>>, NoResult, MessageReply(NoneText))
                    EXCEPT !.minutes = minutes]
        /\ UNCHANGED <<now, langchain_llm, chat_sessions, chatCount, cleared, ragVars>>

\* _llm_available()
LlmAvailable ==
    /\ last' = [Handled("_llm_available", NoneText, NoneText, NoneText, NoneText,
                        <<>>, NoResult, MessageReply(NoneText))
                EXCEPT !.available = _llm_available(cooldownUntil, now)]
    /\ UNCHANGED <<now, cooldownUntil, langchain_llm, chat_sessions, chatCount, cleared, ragVars>>

CooldownNext ==
    \/ Tick
    \/ ActivateLlmCooldown
    \/ LlmAvailable

CooldownSpec == Init /\ [][CooldownNext]_vars

----------------------------------------------------------------------------
(* The RAG chat type: the server started under any configuration, and RAG
   requests while the Google embedding service answers or refuses *)

RagMessages == {"plot temp", "hello"}
RagStores == {MissingDb, OceanDb}
RagRequests ==
    { [message |-> m, chat_type |-> Rag, env |-> [e EXCEPT !.embed = x]] :
        m \in RagMessages, e \in Envs(Rag, RagStores, {}, {}),
        x \in {"ok", "429 Too Many Requests"} }

RagInit == InitOf(Configs)
RagRespond == DirectCall(RagRequests, RouterCallers)
RagChatEndpoint == PostChat(RagRequests)

RagNext ==
    \/ Tick
    \/ RagRespond
    \/ RagChatEndpoint

RagSpec == RagInit /\ [][RagNext]_vars

----------------------------------------------------------------------------
(* The quota handler of the RAG case of respond (chatbot.py:630-703), taken
   on its own: respond returns from the RAG branch above before reaching it,
   so no request runs it.  Each step is one run of the handler on a quota
   error of the embedding call. *)

MaxDemotions == 2

\* The handler after _activate_llm_cooldown(60): APPCFG.embedding_model and
\* APPCFG.embedding_dimension as it leaves them, and the switches to the local
\* backend and delete-and-rebuild sequences counted.  `huggingface` is whether
\* langchain_community.embeddings imports, `delete` whether delete_collection
\* succeeds.  Nothing in it asks whether the backend is local already.
rag_quota_handler(model, dimension, d, huggingface, delete) ==
    IF huggingface # "ok"
    THEN \* the outer except: "RAG is temporarily unavailable"
         [embedding_model |-> model, embedding_dimension |-> dimension, demotion |-> d]
    ELSE [embedding_model |-> "local",
          embedding_dimension |-> LocalDimension,
          demotion |-> [runs |-> d.runs + 1,
                        \* delete_collection, then run_pipeline()
                        rebuilds |-> IF delete = "ok" THEN d.rebuilds + 1 ELSE d.rebuilds]]

\* What the RAG case meets outside the process: what the Google embedding
\* model answers to embed_query, what genai.embed_content answers to the
\* pipeline, whether langchain_community.embeddings imports, and whether
\* delete_collection succeeds on a collection that exists
RagEnv(embed, gemini, huggingface, delete) ==
    [embed |-> embed, gemini |-> gemini, huggingface |-> huggingface, delete |-> delete]

RagEnvs ==
    { RagEnv(e, g, h, d) :
        e \in {"ok", "429 Too Many Requests", "Request timed out"},
        g \in {"ok", "429 Too Many Requests"},
        h \in {"ok", "ImportError"},
        d \in {"ok", "fail"} }

\* str() of what Chroma raises for a collection that does not exist, and for
\* a query vector of another width than the collection's
CollectionMissing == "Collection stored_csv_xlsx does not exist."
DimensionMismatch == "Embedding dimension 384 does not match collection dimensionality 768"

\* A row of the stored CSV as _prepare_data_for_injection writes it
RagDocument == "depth_m: 1,\nwater_temp: 20,\n"

\* The width of the vectors an embedding model produces
DimensionOf(model) == IF model = "google" THEN GoogleDimension ELSE LocalDimension

\* PrepareVectorDBFromTabularData(...).run_pipeline() on the collection `coll`:
\* the collection it leaves and the calls it makes.  Every embedding comes
\* from genai.embed_content, whatever APPCFG.embedding_model is; when the
\* connection test fails the pipeline returns without a word.
run_pipeline(coll, gemini) ==
    LET test == Call("embedding", "genai.embed_content", "google", gemini)
        row == Call("embedding", "genai.embed_content", "google", "ok")
        delete == Call("vectordb", "delete_collection", "collection",
                       IF coll.exists THEN "ok" ELSE CollectionMissing)
        create == Call("vectordb", "create_collection", "collection", "ok")
    IN  IF gemini # "ok"
        THEN [collection |-> coll, calls |-> <<test>>]
        ELSE \* _inject_data_into_chromadb: metadata embedding_dimension = len(embeddings[0])
             [collection |-> GoogleCollection, calls |-> <<test, row, delete, create>>]

\* What a run of the RAG case leaves: how respond ends, and APPCFG, the
\* collection and the counts after it
RagOutcome(result, model, dimension, d, coll) ==
    [result |-> result, embedding_model |-> model, embedding_dimension |-> dimension,
     demotion |-> d, collection |-> coll]

\* collection.query(...) and the envelope built from its documents
rag_query_envelope(text_key) ==
    LET response == "Here are the most relevant results for your query:\n\nResult 1: "
                        \o RagDocument
    IN  IF text_key
        THEN [text |-> response, response |-> response, success |-> TRUE]
        ELSE [response |-> response, success |-> TRUE]

\* respond, the except clause of the RAG case for an error `e` that holds
\* "429" or "quota": cooldown, switch to the local model, delete and rebuild
\* the collection, then embed and query once more
respond_RagQuota(chatbot, message, model, dimension, d, coll, env, calls, t) ==
    LET until == _activate_llm_cooldown(None, t, RagCooldownMinutes)
        delete_outcome ==
            IF ~coll.exists THEN CollectionMissing
            ELSE IF env.delete = "ok" THEN "ok" ELSE "delete_collection failed"
        h == rag_quota_handler(model, dimension, d, env.huggingface,
                               IF delete_outcome = "ok" THEN "ok" ELSE "fail")
        delete == Call("vectordb", "delete_collection", "collection", delete_outcome)
        pipeline == run_pipeline(NoCollection, env.gemini)
        rebuilt == pipeline.collection
        get == Call("vectordb", "get_collection", "collection",
                    IF rebuilt.exists THEN "ok" ELSE CollectionMissing)
        embed == Call("embedding", "embed_query", "local", "ok")
        query == Call("vectordb", "query", "collection",
                      IF rebuilt.dimension = LocalDimension THEN "ok" ELSE DimensionMismatch)
        failed(text, e, cs, c) ==
            RagOutcome(Ret(Append(chatbot, Turn(message, text \o e)),
                           [response |-> text \o e, success |-> FALSE, error |-> e],
                           calls \o cs, until),
                       h.embedding_model, h.embedding_dimension, h.demotion, c)
    IN  IF env.huggingface # "ok"
        THEN failed("RAG is temporarily unavailable due to embedding issues. Please try again later. Details: ",
                    "No module named 'langchain_community'", <<>>, coll)
        ELSE IF delete_outcome # "ok"
        THEN failed("Failed to switch to local embeddings: ", delete_outcome, <<delete>>, coll)
        ELSE IF ~rebuilt.exists
        THEN failed("Failed to switch to local embeddings: ", CollectionMissing,
                    <<delete>> \o pipeline.calls \o <<get>>, rebuilt)
        ELSE IF query.outcome # "ok"
        THEN failed("Failed to switch to local embeddings: ", query.outcome,
                    <<delete>> \o pipeline.calls \o <<get, embed, get, query>>, rebuilt)
        ELSE RagOutcome(Ret(Append(chatbot, Turn(message, rag_query_envelope(FALSE).response)),
                            rag_query_envelope(FALSE),
                            calls \o <<delete>> \o pipeline.calls \o <<get, embed, get, query>>,
                            until),
                        h.embedding_model, h.embedding_dimension, h.demotion, rebuilt)

RagQuotaError ==
    \E env \in RagEnvs :
        LET h == respond_RagQuota(<<>>, "hello", embedding_model, embedding_dimension,
                                  demotion, collection, env, <<>>, now)
        IN  /\ demotion.runs < MaxDemotions
            /\ cooldownUntil' = h.result.cooldown
            /\ embedding_model' = h.embedding_model
            /\ embedding_dimension' = h.embedding_dimension
            /\ demotion' = h.demotion
            /\ collection' = h.collection
            /\ last' = [Handled("rag_quota_handler", NoneText, "hello", Rag, "Chat",
                                <<>>, h.result, MessageReply(NoneText))
                        EXCEPT !.minutes = RagCooldownMinutes]
            /\ UNCHANGED <<now, langchain_llm, chat_sessions, chatCount, cleared,
                           workers, ragQuotaAt>>

DemotionNext ==
    \/ Tick
    \/ RagQuotaError

DemotionSpec == RagInit /\ [][DemotionNext]_vars

----------------------------------------------------------------------------
(* The whole RAG case of respond (chatbot.py:541-723), taken on its own.  It
   is written for an APPCFG whose embedding model may be the Google one, so it
   is run from every APPCFG and collection its code tells apart; startup
   leaves the local model or none, and respond never reaches the case. *)

\* str() of the UnboundLocalError for `results` at "Process results if we have them"
UnboundResults == "cannot access local variable 'results' where it is not associated with a value"

\* respond, `elif chat_type == "RAG with stored CSV/XLSX ChromaDB"` of the
\* `if app_functionality == "Chat"` block
respond_RagCase(chatbot, message, model, dimension, d, coll, env, until, t) ==
    LET get == Call("vectordb", "get_collection", "collection",
                    IF coll.exists THEN "ok" ELSE CollectionMissing)
        embedded == IF model = "google" THEN env.embed ELSE "ok"
        embed == Call("embedding", "embed_query", model, embedded)
        same(result) == RagOutcome(result, model, dimension, d, coll)
        answer(response, envelope, calls, c) ==
            RagOutcome(Ret(Append(chatbot, Turn(message, response)), envelope, calls, until),
                       model, dimension, d, c)
        \* an error that is no quota error leaves the except clause; `results`
        \* was never assigned
        unbound(calls) == same(Raise(UnboundResults, chatbot, calls, until))
    IN  IF model = NoneText
        THEN LET response == "No embedding model available. Please check your configuration. Try using local embeddings by setting use_local_embeddings: true in configs/app_config.yml"
             IN  answer(response,
                        [response |-> response, success |-> FALSE,
                         error |-> "No embedding model available"],
                        <<>>, coll)
        ELSE IF ~coll.exists
        THEN unbound(<<get>>)
        ELSE IF embedded # "ok"
        THEN IF IsQuotaError(embedded)
             THEN respond_RagQuota(chatbot, message, model, dimension, d, coll, env,
                                   <<get, embed>>, t)
             ELSE unbound(<<get, embed>>)
        ELSE IF DimensionOf(model) # coll.dimension
        THEN \* "Embedding dimension mismatch": delete, run the pipeline, get
             LET delete == Call("vectordb", "delete_collection", "collection",
                                IF env.delete = "ok" THEN "ok" ELSE "delete_collection failed")
                 deleted == IF env.delete = "ok" THEN NoCollection ELSE coll
                 pipeline == run_pipeline(deleted, env.gemini)
                 rebuilt == pipeline.collection
                 again == Call("vectordb", "get_collection", "collection",
                               IF rebuilt.exists THEN "ok" ELSE CollectionMissing)
                 calls == <<get, embed, delete>> \o pipeline.calls \o <<again>>
             IN  IF rebuilt.exists
                 THEN LET response == "Successfully recreated collection with correct dimensions. Please try your query again."
                      IN  answer(response, [response |-> response, success |-> TRUE],
                                 calls, rebuilt)
                 ELSE LET response == "Failed to recreate collection with correct dimensions: "
                                          \o CollectionMissing
                      IN  answer(response,
                                 [response |-> response, success |-> FALSE,
                                  error |-> CollectionMissing],
                                 calls, rebuilt)
        ELSE answer(rag_query_envelope(TRUE).response, rag_query_envelope(TRUE),
                    <<get, embed, Call("vectordb", "query", "collection", "ok")>>, coll)

\* The APPCFG and the collection the case can be entered with
RagCaseInit ==
    /\ now = 0
    /\ cooldownUntil = None
    /\ langchain_llm \in BOOLEAN
    /\ embedding_model \in {"google", "local", NoneText}
    /\ embedding_dimension \in {LocalDimension, GoogleDimension}
    /\ demotion = [runs |-> 0, rebuilds |-> 0]
    /\ collection \in {NoCollection, GoogleCollection}
    /\ workers = [w \in Workers |-> Idle]
    /\ ragQuotaAt = None
    /\ chat_sessions = <<>>
    /\ chatCount = [s \in SessionIds |-> 0]
    /\ cleared = {}
    /\ last = [op |-> "start", session |-> NoneText, message |-> NoneText,
               chat_type |-> NoneText, app_functionality |-> NoneText,
               chatbot |-> <<>>, at |-> 0, until |-> None,
               result |-> NoResult, http |-> MessageReply(NoneText), env |-> NoEnv,
               minutes |-> 0, available |-> TRUE]

\* One run of the case, with the catch-all except clause of respond around it
RagCase ==
    \E env \in RagEnvs :
        LET message == "hello"
            o == respond_RagCase(<<>>, message, embedding_model, embedding_dimension,
                                 demotion, collection, env, cooldownUntil, now)
            response == "I'm sorry, I encountered an error while processing your request. Please try again."
            r == IF o.result.kind = "raise"
                 THEN Ret(Append(o.result.history, Turn(message, response)),
                          [response |-> response, success |-> FALSE, error |-> o.result.error],
                          o.result.calls, o.result.cooldown)
                 ELSE o.result
        IN  /\ cooldownUntil' = r.cooldown
            /\ embedding_model' = o.embedding_model
            /\ embedding_dimension' = o.embedding_dimension
            /\ demotion' = o.demotion
            /\ collection' = o.collection
            /\ ragQuotaAt' = IF embedding_model = "google" /\ collection.exists
                                /\ env.embed # "ok" /\ Contains(env.embed, "429")
                             THEN now ELSE ragQuotaAt
            /\ last' = [Handled("rag_case", NoneText, message, Rag, "Chat", <<>>, r,
                                MessageReply(NoneText))
                        EXCEPT !.env = env]
            /\ UNCHANGED <<now, langchain_llm, chat_sessions, chatCount, cleared, workers>>

RagCaseNext ==
    \/ Tick
    \/ RagCase

RagCaseSpec == RagCaseInit /\ [][RagCaseNext]_vars

----------------------------------------------------------------------------
(* The delete-then-rebuild of the quota handler (chatbot.py:653-661 with
   _inject_data_into_chromadb), call by call, for callers that share the
   persisted collection: respond is a plain synchronous method that takes no
   lock, so two threads calling it, or two server processes on one persist
   directory, interleave between its blocking calls.  The event loop of one
   server process runs one chat_endpoint at a time. *)

\* The steps of a caller `w`, as the record of the handler that ran last
Stepped(op, w) ==
    Handled(op, w, "hello", Rag, "Chat", <<>>, NoResult, MessageReply(NoneText))

\* A quota error reaches the handler of `w`: cooldown, switch to the local
\* model, delete_collection.  On a collection that is gone the delete raises
\* and the handler answers "Failed to switch to local embeddings".
QuotaDelete(w) ==
    LET h == rag_quota_handler(embedding_model, embedding_dimension, demotion, "ok",
                               IF collection.exists THEN "ok" ELSE "fail")
    IN  /\ workers[w].pc = "idle"
        /\ demotion.runs < MaxDemotions
        /\ cooldownUntil' = _activate_llm_cooldown(cooldownUntil, now, RagCooldownMinutes)
        /\ embedding_model' = h.embedding_model
        /\ embedding_dimension' = h.embedding_dimension
        /\ demotion' = h.demotion
        /\ collection' = NoCollection
        /\ workers' = [workers EXCEPT ![w] =
                           [pc |-> IF collection.exists THEN "deleted" ELSE "idle",
                            at |-> now, rebuilt |-> FALSE]]
        /\ ragQuotaAt' = now
        /\ last' = Stepped("delete_collection", w)
        /\ UNCHANGED <<now, langchain_llm, chat_sessions, chatCount, cleared>>

\* run_pipeline of `w` up to create_collection: the embeddings, the delete of
\* _inject_data_into_chromadb (its failure is swallowed) and the create.  When
\* Gemini refuses the pipeline stops and get_collection decides the answer.
PipelineCreate(w) ==
    \E gemini \in {"ok", "429 Too Many Requests"} :
        LET pipeline == run_pipeline(collection, gemini)
        IN  /\ workers[w].pc = "deleted"
            /\ collection' = pipeline.collection
            /\ workers' = [workers EXCEPT ![w] =
                               [pc |-> IF gemini = "ok" THEN "created" ELSE "idle",
                                at |-> @.at, rebuilt |-> gemini = "ok"]]
            /\ last' = Stepped("create_collection", w)
            /\ UNCHANGED <<now, cooldownUntil, langchain_llm, chat_sessions, chatCount, cleared,
                           embedding_model, embedding_dimension, demotion, ragQuotaAt>>

\* collection.add, _validate_db and the retry of the search: the sequence of
\* `w` ends
PipelineAdd(w) ==
    /\ workers[w].pc = "created"
    /\ workers' = [workers EXCEPT ![w] = [@ EXCEPT !.pc = "idle"]]
    /\ last' = Stepped("add", w)
    /\ UNCHANGED <<now, cooldownUntil, langchain_llm, chat_sessions, chatCount, cleared,
                   embedding_model, embedding_dimension, demotion, collection, ragQuotaAt>>

WorkerQuotaDelete == \E w \in Workers : QuotaDelete(w)
WorkerPipelineCreate == \E w \in Workers : PipelineCreate(w)
WorkerPipelineAdd == \E w \in Workers : PipelineAdd(w)

RebuildNext ==
    \/ Tick
    \/ WorkerQuotaDelete
    \/ WorkerPipelineCreate
    \/ WorkerPipelineAdd

RebuildSpec == RagCaseInit /\ [][RebuildNext]_vars

----------------------------------------------------------------------------
(* What the properties below read off the handler that ran last *)

RouterRan == last.op \in {"respond", "chat_endpoint"}
TabularChat ==
    /\ RouterRan
    /\ last.chat_type \in {UploadedTabularSql, StoredTabularSql}
    /\ last.app_functionality = "Chat"
CallsMade == last.result.calls
CallsTo(svc) == { i \in DOMAIN CallsMade : CallsMade[i].svc = svc }
\* The LLM calls of the request that raised
FailedLlmCalls == { i \in CallsTo("llm") : CallsMade[i].outcome # "ok" }
\* os.path.exists(db_path) answered True
StoreExists == \E i \in CallsTo("fs") : CallsMade[i].outcome = "True"
\* The "Fallback: Direct SQL + Visualization" block ran: only it opens the
\* store with sqlite3.connect in the CSV/XLSX branch
AnsweredByFallback == \E i \in CallsTo("sql") : CallsMade[i].op = "connect"
CooldownActive == last.until # None /\ last.at < last.until
Envelope == last.result.envelope

----------------------------------------------------------------------------
(* Properties *)

\* C1: a request handled while the cooldown is active (the clock before the
\* stored expiry) makes no LLM call, neither building nor invoking the agent;
\* a CSV/XLSX request whose store exists is then answered by the fallback block.
C1_CooldownGating ==
    (RouterRan /\ CooldownActive) =>
        /\ CallsTo("llm") = {}
        /\ (TabularChat /\ StoreExists) => AnsweredByFallback

\* C1 witness: with an LLM configured, a CSV/XLSX request arrives during the
\* cooldown and the fallback answers it
C1_Witness ==
    /\ TabularChat /\ CooldownActive /\ langchain_llm
    /\ StoreExists /\ AnsweredByFallback
    /\ Envelope.success

\* C2 (as stated): for a CSV/XLSX request whose store exists, when the agent
\* raises, while built or while invoked, the fallback block answers
C2_AgentFailureFallsBack ==
    (TabularChat /\ StoreExists /\ FailedLlmCalls # {}) => AnsweredByFallback

\* C3 (as stated): when an LLM call of a request fails with a text holding
\* "429" or "quota", the request leaves the cooldown set to 30 minutes from now
\* (60 on the RAG type), so that the provider is unavailable right after it
C3_QuotaActivatesCooldown ==
    (RouterRan /\ \E i \in FailedLlmCalls : IsQuotaError(CallsMade[i].outcome)) =>
        /\ last.result.cooldown =
               _activate_llm_cooldown(last.until, last.at, IF last.chat_type = Rag
                                               THEN RagCooldownMinutes
                                               ELSE SqlCooldownMinutes)
        /\ ~_llm_available(last.result.cooldown, last.at)

\* C4: no exception leaves respond or the /api/chat handler: respond returns
\* ("", history, envelope) with a response in the envelope, and the handler
\* returns a ChatResponse
C4_NoExceptionEscapes ==
    RouterRan =>
        /\ last.result.kind = "return"
        /\ "response" \in DOMAIN Envelope
        /\ last.op = "chat_endpoint" => last.http.kind = "ChatResponse"

\* C4 witness: outside "Chat" a CSV/XLSX or unknown chat type reaches the read
\* of the unassigned `response`; the catch-all turns it into an envelope
C4_Witness ==
    /\ last.op = "respond"
    /\ last.app_functionality # "Chat"
    /\ last.result.kind = "return"
    /\ "error" \in DOMAIN Envelope
    /\ \E i \in DOMAIN UnboundLocalTexts : Envelope.error = UnboundLocalTexts[i]

\* C5 (as stated): whenever the agent of a request fails, the envelope has
\* success = false and a non-empty error
C5_FailureEnvelope ==
    (RouterRan /\ FailedLlmCalls # {}) =>
        /\ "success" \in DOMAIN Envelope /\ ~Envelope.success
        /\ "error" \in DOMAIN Envelope /\ ~Falsy(Envelope.error)

\* C5 (amended): when the agent raises while invoked, the envelope has
\* success = false and the raised text as its error; when it raises while
\* built, the envelope is the fallback block's: success = true and no error,
\* or success = false and the store's error
C5_FailureEnvelopeAmended ==
    \A i \in FailedLlmCalls :
        RouterRan =>
            /\ "success" \in DOMAIN Envelope
            /\ CallsMade[i].op = "agent.invoke" =>
                   /\ ~Envelope.success
                   /\ "error" \in DOMAIN Envelope
                   /\ Envelope.error = CallsMade[i].outcome
                   /\ ~Falsy(Envelope.error)
            /\ CallsMade[i].op = "create_sql_agent" =>
                   /\ AnsweredByFallback
                   /\ \/ Envelope.success /\ "error" \notin DOMAIN Envelope
                      \/ /\ ~Envelope.success
                         /\ "error" \in DOMAIN Envelope
                         /\ ~Falsy(Envelope.error)

\* C5 witness: the invocation of the agent timed out and the envelope says so
C5_Witness ==
    /\ TabularChat
    /\ \E i \in FailedLlmCalls :
          /\ CallsMade[i].op = "agent.invoke"
          /\ CallsMade[i].outcome \in OtherErrors
          /\ Envelope.error = CallsMade[i].outcome
    /\ ~Envelope.success

\* C6 (as stated): a chat type outside the four supported ones gets success =
\* false and error "Unsupported chat type", and no store or provider is touched
C6_UnsupportedChatType ==
    (RouterRan /\ last.chat_type \notin SupportedChatTypes) =>
        /\ "success" \in DOMAIN Envelope /\ ~Envelope.success
        /\ "error" \in DOMAIN Envelope /\ Envelope.error = "Unsupported chat type"
        /\ CallsMade = <<>>

\* C7 (as stated): after the second chat request of a session the transcript
\* has two turns, the second holding that request's message and the response
\* given to it, and a history read returns the transcript
C7_TwoTurns ==
    \A s \in SessionIds :
        chatCount[s] = 2 =>
            /\ s \in DOMAIN chat_sessions
            /\ Len(chat_sessions[s]) = 2
            /\ (last.op = "chat_with_session" /\ last.session = s) =>
                   chat_sessions[s][2] = Turn(last.message, last.http.response)
            /\ (last.op = "get_chat_history" /\ last.session = s) =>
                   last.http.history = chat_sessions[s]

\* C8: once a session is cleared, and until the next chat request for its id,
\* the store does not hold the id and a history read returns no turn
C8_ClearedReadsEmpty ==
    \A s \in cleared :
        /\ s \notin DOMAIN chat_sessions
        /\ (last.op = "get_chat_history" /\ last.session = s) => last.http.history = <<>>

\* C8 witness: a session that was chatted with and then cleared is read
C8_Witness ==
    /\ last.op = "get_chat_history"
    /\ last.session \in cleared
    /\ last.http.kind = "ChatHistory"
    /\ last.http.history = <<>>

\* C9: a chat request or a clear on one session id changes neither the
\* transcript of another id nor whether the store holds it
C9_SessionIsolation ==
    [][ \A s \in SessionIds :
            (last'.op \in {"chat_with_session", "clear_chat_session"} /\ last'.session # s) =>
                /\ (s \in DOMAIN chat_sessions') = (s \in DOMAIN chat_sessions)
                /\ s \in DOMAIN chat_sessions => chat_sessions'[s] = chat_sessions[s]
      ]_vars

\* C9 witness: session A was cleared while the store held session B, and B is
\* still held
C9_Witness ==
    /\ last.op = "clear_chat_session"
    /\ last.session = "A"
    /\ "A" \in cleared
    /\ "B" \in DOMAIN chat_sessions

\* C10 (as stated): a stored-SQL-DB request whose store exists, with an LLM
\* configured and no cooldown active, attempts the LLM chain
C10_StoredSqlUsesLlm ==
    (RouterRan /\ last.chat_type = StoredSql /\ StoreExists
        /\ langchain_llm /\ _llm_available(last.until, last.at)) =>
        CallsTo("llm") # {}

\* The heuristic responder read the store at `path` and no LLM was called
HeuristicRead(path) ==
    /\ RouterRan
    /\ CallsTo("llm") = {}
    /\ \E i \in CallsTo("sql") :
          /\ CallsMade[i].op = "connect"
          /\ CallsMade[i].target = path
          /\ CallsMade[i].outcome = "ok"

\* The temperature-like columns of a table
TempColumns(t) ==
    SelectSeq(t.cols, LAMBDA c : ContainsAny(Lower(c), {"temperature", "temp", "sst"}))

\* C12 (as stated): when the heuristic responder answers a SQL-branch request
\* whose message holds one of range/min/max/temperature/temp, and the first
\* table of the store it reads has a temperature-like column with a non-null
\* value, the response text holds that column's minimum and its maximum
C12_HeuristicMinMax ==
    \A path \in Paths :
        LET db == last.env.dbs[path]
            t == db.tables[1]
            values == ColValues(t, TempColumns(t)[1])
        IN  (/\ HeuristicRead(path)
             /\ last.chat_type \in {StoredSql, UploadedTabularSql, StoredTabularSql}
             /\ ContainsAny(Lower(last.message), {"range", "min", "max", "temperature", "temp"})
             /\ TablesOf(db) # <<>>
             /\ TempColumns(t) # <<>>
             /\ values # {}) =>
                /\ str_contains(Envelope.response, ToString(SetMin(values)))
                /\ str_contains(Envelope.response, ToString(SetMax(values)))

\* C14: _activate_llm_cooldown(m) stores now + m whatever expiry was stored
\* before: a second activation overwrites the first, also with a shorter duration
C14_ActivateOverwrites ==
    last.op = "_activate_llm_cooldown" => cooldownUntil = last.at + last.minutes

\* C14 witness: at one instant an activation followed a longer one, and the
\* stored expiry is the shorter one's
C14_Witness ==
    /\ last.op = "_activate_llm_cooldown"
    /\ last.at = 0
    /\ last.until # None
    /\ last.until > last.at + last.minutes
    /\ cooldownUntil = last.at + last.minutes

\* C15: _llm_available returns False exactly when an expiry is stored and the
\* clock is strictly before it
C15_AvailableIffNotBeforeExpiry ==
    last.op = "_llm_available" =>
        (~last.available <=> (last.until # None /\ last.at < last.until))

\* C15 witness: at the expiry instant itself the provider is available again
C15_Witness ==
    /\ last.op = "_llm_available"
    /\ last.until # None
    /\ last.at = last.until
    /\ last.available

\* The store a CSV/XLSX chat type selects
SelectedStore == IF last.chat_type = UploadedTabularSql THEN "uploaded" ELSE "stored_csv"

\* C18 (as stated): the fallback block of a CSV/XLSX request opens the store
\* its chat type selected, whatever the message
C18_FallbackSameStore ==
    (TabularChat /\ AnsweredByFallback) =>
        \A i \in CallsTo("sql") :
            CallsMade[i].op = "connect" => CallsMade[i].target = SelectedStore

\* The text answer of the request, when one was produced: the rows
\* _get_sql_response found, the RAG text, or the output of the agent
TextAnswers ==
    IF last.chat_type = StoredSql
    THEN LET text == _get_sql_response(last.message, last.chat_type, last.env).text
         IN  IF StartsWith(text, "Query results:") THEN {text} ELSE {}
    ELSE IF last.chat_type = Rag
    THEN {"Response from RAG model"}
    ELSE IF TabularChat /\ \E i \in CallsTo("llm") :
                               /\ CallsMade[i].op = "agent.invoke"
                               /\ CallsMade[i].outcome = "ok"
    THEN {last.env.output}
    ELSE {}

\* C19 (as stated): when the text answer of a request was produced, the
\* envelope opens with that text and reports success = true, and so does the
\* ChatResponse of /api/chat, whether a chart was rendered, failed or skipped
C19_VisualizationKeepsOutcome ==
    RouterRan =>
        \A answer \in TextAnswers :
            /\ "response" \in DOMAIN Envelope
            /\ StartsWith(Envelope.response, answer)
            /\ "success" \in DOMAIN Envelope
            /\ Envelope.success
            /\ last.op = "chat_endpoint" => last.http.success

\* C20 (as stated): a request whose message holds no visualization keyword
\* calls no chart generation and gets no chart attached, on every chat type
C20_ChartOnlyOnKeyword ==
    (RouterRan /\ ~detect_graph_request(last.message)) =>
        /\ CallsTo("viz") = {}
        /\ "graph" \notin DOMAIN Envelope

\* C11: a RAG request with an embedding model configured embeds the query and
\* queries the vector-store collection.
C11_RagQueriesVectorStore ==
    (RouterRan /\ last.chat_type = Rag /\ last.app_functionality = "Chat"
        /\ embedding_model # NoneText)
    => (CallsTo("embedding") # {} /\ CallsTo("vectordb") # {})

\* The embedding calls a request made with a backend
EmbedCalls(calls, backend) ==
    { i \in DOMAIN calls : calls[i].svc = "embedding" /\ calls[i].target = backend }

\* C13: within 60 minutes of a RAG request that met a 429 from the embedding
\* service, a later RAG request makes no remote embedding call and embeds
\* with the local backend.
C13_RagCooldownSkipsRemote ==
    [][ (/\ ragQuotaAt # None
         /\ now <= ragQuotaAt + RagCooldownMinutes
         /\ last' # last
         /\ RouterRan'
         /\ last'.chat_type = Rag
         /\ last'.app_functionality = "Chat")
        => (/\ EmbedCalls(last'.result.calls, "google") = {}
            /\ EmbedCalls(last'.result.calls, "local") # {}) ]_vars

\* C17: once the embedding backend is local, no step makes it the Google
\* backend again.
C17_LocalStaysLocal ==
    [][ embedding_model = "local" => embedding_model' # "google" ]_vars

C17_Witness ==
    /\ embedding_model = "local"
    /\ RouterRan
    /\ last.chat_type = Rag
    /\ ragQuotaAt # None

C30_ClearReportsPresence ==
    [][ \A s \in SessionIds :
            (last' # last /\ last'.op = "clear_chat_session" /\ last'.session = s) =>
                /\ last'.http.response =
                       IF s \in DOMAIN chat_sessions
                       THEN "Session " \o s \o " cleared successfully"
                       ELSE "Session " \o s \o " not found"
                /\ s \notin DOMAIN chat_sessions'
      ]_vars

\* C30 witness: a clear of a held session answered "cleared successfully"
\* while the other session had never been stored
C30_Witness ==
    /\ last.op = "clear_chat_session"
    /\ last.http.response = "Session " \o last.session \o " cleared successfully"
    /\ last.session \notin DOMAIN chat_sessions
    /\ DOMAIN chat_sessions = {}

\* The chat types answered from a relational store, and the store of the request
SqlChatTypes == {StoredSql, UploadedTabularSql, StoredTabularSql}
RequestStore ==
    last.env.dbs[IF last.chat_type = StoredSql THEN "sqldb" ELSE SelectedStore]
SqlChat ==
    /\ RouterRan
    /\ last.chat_type \in SqlChatTypes
    /\ last.app_functionality = "Chat"

\* C25 (as stated): a SQL chat type whose store holds no table is answered
\* with the fixed "No tables found in the database." text and success = true.
C25_EmptyStoreAnswer ==
    (SqlChat /\ RequestStore = EmptyDb) =>
        /\ "response" \in DOMAIN Envelope
        /\ Envelope.response = "No tables found in the database."
        /\ "success" \in DOMAIN Envelope
        /\ Envelope.success

\* The sqlite3.connect calls of the request that raised, or whose connection
\* raised on its first statement
FailedStoreCalls ==
    { i \in CallsTo("sql") : CallsMade[i].op = "connect" /\ CallsMade[i].outcome # "ok" }

\* C26 (as stated): a store-access error met while a SQL chat type is answered
\* without the LLM is returned, not raised, in an envelope with
\* success = false and the raw error message as its error.
C26_StoreErrorReported ==
    \A i \in FailedStoreCalls :
        SqlChat =>
            /\ last.result.kind = "return"
            /\ "success" \in DOMAIN Envelope
            /\ ~Envelope.success
            /\ "error" \in DOMAIN Envelope
            /\ Envelope.error = CallsMade[i].outcome

\* C27 (as stated): when the LLM is in cooldown, or its call fails with an
\* error that is not a quota error, the request is answered by the fallback
\* block and the text of the answer does not hold the raw error.
C27_ProviderErrorHidden ==
    TabularChat =>
        /\ (langchain_llm /\ CooldownActive /\ StoreExists) => AnsweredByFallback
        /\ \A i \in FailedLlmCalls :
               ~IsQuotaError(CallsMade[i].outcome) =>
                   /\ AnsweredByFallback
                   /\ "response" \in DOMAIN Envelope
                   /\ ~str_contains(Envelope.response, CallsMade[i].outcome)

\* C28 (as stated): a request whose app_functionality is not "Chat" gets an
\* envelope with success = false, on every chat type.
C28_DisabledFunctionality ==
    (RouterRan /\ last.app_functionality # "Chat") =>
        /\ last.result.kind = "return"
        /\ "success" \in DOMAIN Envelope
        /\ ~Envelope.success

\* C29 (as stated): every envelope respond returns holds a non-empty response
\* text and a boolean success field.
C29_UniformEnvelope ==
    RouterRan =>
        /\ last.result.kind = "return"
        /\ "response" \in DOMAIN Envelope
        /\ ~Falsy(Envelope.response)
        /\ "success" \in DOMAIN Envelope
        /\ Envelope.success \in BOOLEAN

\* The error texts of the calls of a request that raised
Failures(calls) ==
    { calls[i].outcome : i \in { j \in DOMAIN calls :
                                    calls[j].svc \in {"llm", "sql"} /\ calls[j].outcome # "ok" } }

\* A request just ran whose failures are all other than quota errors
NonQuotaFailure ==
    /\ last' # last
    /\ RouterRan'
    /\ Failures(last'.result.calls) # {}
    /\ Failures(last'.result.calls) \cap QuotaErrors = {}

RagCaseRan == last.op = "rag_case"
GoogleEmbedCalls == { i \in CallsTo("embedding") : CallsMade[i].target = "google" }

Rebuilt == \E i \in CallsTo("vectordb") : CallsMade[i].op = "create_collection"

Rebuilding == { w \in Workers : workers[w].pc # "idle" }

C40_StatelessLeavesSessions ==
    [][ (last' # last /\ last'.op = "chat_endpoint") =>
            /\ last'.chatbot = <<>>
            /\ chat_sessions' = chat_sessions
      ]_vars

\* C40 witness: /api/chat answered while the store held session A and not B
C40_Witness ==
    /\ last.op = "chat_endpoint"
    /\ last.chatbot = <<>>
    /\ DOMAIN chat_sessions = {"A"}
    /\ last.result.history # <<>>

\* C37: a session chat request that the handler answers with success=false
\* leaves the session store as it was: no session created, no transcript changed.
C37_FailedChatLeavesStore ==
    [][ (last' # last /\ last'.op = "chat_with_session" /\ ~last'.http.success) =>
            chat_sessions' = chat_sessions
      ]_vars

\* What /api/chat reports for the request of the session chat `last` records,
\* from the same router state
StatelessReply(req) ==
    chat_endpoint(respond(<<>>, req.message, req.chat_type, "Chat", req.env,
                          last.until, last.at, langchain_llm))

\* C38: for the same message, chat type and router state the session chat
\* endpoint reports the response text and the success flag /api/chat reports.
C38_SessionMatchesStateless ==
    (last.op = "chat_with_session" /\ last.app_functionality = "Chat") =>
        \A req \in ServerRequests :
            (req.message = last.message /\ req.chat_type = last.chat_type) =>
                /\ last.http.response = StatelessReply(req).response
                /\ last.http.success = StatelessReply(req).success

\* C32: no turn of a session chat request is lost: a transcript in the store
\* holds one turn for each chat request made for its id since the id was
\* last cleared, whatever the order the requests of the ids were handled in.
C32_NoTurnLost ==
    \A s \in DOMAIN chat_sessions : Len(chat_sessions[s]) = chatCount[s]

\* C33 (as stated): a read of the transcript of an id the store does not hold
\* returns an empty transcript and leaves the id in the store.
C33_ReadCreatesSession ==
    [][ (last' # last /\ last'.op = "get_chat_history"
            /\ last'.session \notin DOMAIN chat_sessions) =>
            /\ last'.http.history = <<>>
            /\ last'.session \in DOMAIN chat_sessions'
      ]_vars

\* C33 (amended): a read of the transcript of an id the store does not hold
\* returns an empty transcript and leaves the store unchanged; the id enters
\* the store with the first chat request made for it.
C33_ReadLeavesStore ==
    [][ /\ (last' # last /\ last'.op = "get_chat_history"
              /\ last'.session \notin DOMAIN chat_sessions) =>
              /\ last'.http.history = <<>>
              /\ chat_sessions' = chat_sessions
        /\ (last' # last /\ last'.op = "chat_with_session") =>
              last'.session \in DOMAIN chat_sessions'
      ]_vars

\* C33 witness: the transcript of B was read while the store held only A
C33_Witness ==
    /\ last.op = "get_chat_history"
    /\ last.session = "B"
    /\ last.http.history = <<>>
    /\ DOMAIN chat_sessions = {"A"}

\* C35: every call of respond returns the history it was given followed by
\* exactly one new turn, whose user message is the message of the request.
C35_OneTurnAppended ==
    RouterRan =>
        /\ Len(last.result.history) = Len(last.chatbot) + 1
        /\ SubSeq(last.result.history, 1, Len(last.chatbot)) = last.chatbot
        /\ last.result.history[Len(last.result.history)][1] = last.message

\* C35 witness: a caller with one earlier turn whose request ended in the
\* except clause of the agent's invocation
C35_Witness ==
    /\ last.op = "respond"
    /\ Len(last.chatbot) = 1
    /\ \E i \in FailedLlmCalls : CallsMade[i].op = "agent.invoke"
    /\ Len(last.result.history) = 2
    /\ last.result.history[2][1] = last.message

\* The LLM calls of the request a step handles that failed with a quota text
QuotaFailuresOfStep ==
    { i \in DOMAIN last'.result.calls :
        /\ last'.result.calls[i].svc = "llm"
        /\ last'.result.calls[i].outcome \in QuotaErrors }

\* C39: the cooldown expiry changes only in a request whose LLM call failed
\* with a quota text; a request handled while the cooldown is active leaves
\* the expiry as it was; and a CSV/XLSX request handled once the clock has
\* reached the expiry takes the primary path again (it builds the SQL agent).
C39_ExpiryChangesOnlyOnQuota ==
    [][ /\ cooldownUntil' # cooldownUntil =>
              /\ last' # last /\ last'.op \in {"respond", "chat_endpoint"}
              /\ QuotaFailuresOfStep # {}
        /\ (last' # last /\ last'.op \in {"respond", "chat_endpoint"}
              /\ cooldownUntil # None /\ now < cooldownUntil) =>
              cooldownUntil' = cooldownUntil
        /\ (last' # last /\ last'.op \in {"respond", "chat_endpoint"}
              /\ last'.app_functionality = "Chat"
              /\ last'.chat_type \in {UploadedTabularSql, StoredTabularSql}
              /\ last'.env.dbs[IF last'.chat_type = UploadedTabularSql
                               THEN "uploaded" ELSE "stored_csv"].exists
              /\ langchain_llm
              /\ cooldownUntil # None /\ now >= cooldownUntil) =>
              \E i \in DOMAIN last'.result.calls :
                  last'.result.calls[i].op \in {"SQLDatabase", "create_sql_agent"}
      ]_vars

\* C39 witness: a CSV/XLSX request was answered by the fallback while the
\* cooldown was active and left the expiry; the clock has since reached it
C39_Witness ==
    /\ TabularChat /\ CooldownActive /\ AnsweredByFallback
    /\ cooldownUntil = last.until
    /\ now >= cooldownUntil

TargetTable(db) ==
    IF \E i \in DOMAIN db.tables : db.tables[i].name = "ocean_1"
    THEN db.tables[CHOOSE i \in DOMAIN db.tables : db.tables[i].name = "ocean_1"]
    ELSE db.tables[1]

\* What the request `last` records is answered on a store at `path` that
\* holds the target table alone
AnswerFromTarget(path) ==
    LET db == last.env.dbs[path]
        only == [db EXCEPT !.tables = <<TargetTable(db)>>]
        env == [last.env EXCEPT !.dbs[path] = only]
    IN  respond(last.chatbot, last.message, last.chat_type, last.app_functionality,
                env, last.until, last.at, langchain_llm).envelope

\* C34 (as stated): a SQL-branch request the heuristic responder answers is
\* answered from one table, ocean_1 when the store lists it and else the
\* first table of the catalog: the min/max answer or the summary it gives is
\* the one that table alone gives.
C34_PreferredTable ==
    \A path \in Paths :
        (/\ HeuristicRead(path)
         /\ last.chat_type \in {StoredSql, UploadedTabularSql, StoredTabularSql}
         /\ TablesOf(last.env.dbs[path]) # <<>>) =>
            Envelope.response = AnswerFromTarget(path).response

\* C36 (as stated): the bot response of the turn a request appends to the
\* history is the response text of the envelope returned for the request.
C36_TurnMatchesEnvelope ==
    (RouterRan /\ last.result.history # <<>>) =>
        /\ "response" \in DOMAIN Envelope
        /\ last.result.history[Len(last.result.history)][2] = Envelope.response

====
